---- MODULE Spec2Model ----
(***************************************************************************)
(* Model of the Starfish MCP query path: the sliding-window RateLimiter    *)
(* (starfish_mcp/rate_limiter.py), the tool dispatcher that guards         *)
(* starfish_query with it (starfish_mcp/tools/__init__.py), the calls of   *)
(* StarfishClient.async_query and StarfishClient.query with the            *)
(* TokenManager (starfish_mcp/client.py) and the compiler of arguments to a*)
(* query string, build_starfish_query (starfish_mcp/tools/query_builder.py)*)
(*                                                                         *)
(* Time is an integer number of clock ticks; time.time() reads `now`.      *)
(* A Python None is the empty tuple <<>>; an Optional[x] value is <<>> or  *)
(* <<x>>.  A formatted message is the tuple of its tag and the values the  *)
(* f-string interpolates.                                                  *)
(***************************************************************************)
EXTENDS Integers, Sequences, FiniteSets, TLC

\* ---- bounds of the model ----
MaxTime == 4
MaxQ == 2
MaxWindow == 2
NumCalls == 2
MaxAdmitted == 4

Calls == 1..NumCalls
None == <<>>

VARIABLES
    now,                  \* the wall clock read by time.time()
    max_queries,          \* RateLimiter.max_queries
    time_window_seconds,  \* RateLimiter.time_window_seconds
    enabled,              \* RateLimiter.enabled
    query_timestamps,     \* RateLimiter._query_timestamps (deque, oldest first)
    ret,                  \* what the last direct RateLimiter method call returned
    admitted,             \* history: the clock times of the admitted checks
                          \* of the last MaxWindow + 1 ticks, oldest first
    calls,                \* the running handle_tool_call invocations
    out,                  \* what the last handle_tool_call to return returned
    twin,                 \* a second RateLimiter that is given the same calls
                          \* as the first, except the get_status calls
    aq,                   \* the running call of StarfishClient.async_query
                          \* or StarfishClient.query
    qb,                   \* the last build_starfish_query call: its arguments
                          \* and the query string it returned
    backend               \* what the Starfish server answers to the
                          \* requests of the client call

vars == <<now, max_queries, time_window_seconds, enabled, query_timestamps,
          ret, admitted, calls, out, twin, aq, qb, backend>>

limiter == <<max_queries, time_window_seconds, enabled, query_timestamps>>

tools == <<calls, out>>

rest == <<qb, backend>>

side == <<twin, aq, rest>>

\* ---- RateLimiter: pure parts ----

\* the eviction loop `while ts and now - ts[0] > window: ts.popleft()`
RECURSIVE EvictEarly(_, _, _)
EvictEarly(ts, t, window) ==
    IF ts # <<>> /\ t - Head(ts) >= window
    THEN EvictEarly(Tail(ts), t, window)
    ELSE ts

EvictNothing(ts, t, window) == ts

EvictOne(ts, t, window) ==
    IF ts # <<>> /\ t - Head(ts) > window THEN Tail(ts) ELSE ts

RECURSIVE Evict(_, _, _)
Evict(ts, t, window) ==
    IF ts # <<>> /\ t - Head(ts) > window
    THEN Evict(Tail(ts), t, window)
    ELSE ts

\* `if len(self._query_timestamps) >= self.max_queries`
AtLimitOffByOne(n, maxq) == n > maxq

AtLimit(n, maxq) == n >= maxq

\* `wait_time = self.time_window_seconds - (now - oldest_query_time)`
WaitTimeFromNewest(window, t, live) == window - (t - live[Len(live)])

WaitTime(window, t, live) == window - (t - Head(live))

\* the f-string of the rejection: count/max, window and wait time
RateLimitMessage(n, maxq, window, wait) ==
    <<"RATE LIMIT EXCEEDED", n, maxq, window, wait>>

\* check_rate_limit as a function of the limiter's fields and the clock.
\* outcome "raise" is the IndexError of `self._query_timestamps[0]` on an
\* empty deque; the eviction before it has already happened.
check_rate_limit_records_rejected(ts, t, maxq, window, en) ==
    IF ~en
    THEN [outcome |-> "admit", allowed |-> TRUE, msg |-> None, ts |-> ts]
    ELSE LET live == Evict(ts, t, window) IN
         IF AtLimit(Len(live), maxq)
         THEN IF live = <<>>
              THEN [outcome |-> "raise", allowed |-> FALSE, msg |-> None,
                    ts |-> live]
              ELSE [outcome |-> "reject", allowed |-> FALSE,
                    msg |-> RateLimitMessage(Len(live), maxq, window,
                                             WaitTime(window, t, live)),
                    ts |-> Append(live, t)]
         ELSE [outcome |-> "admit", allowed |-> TRUE, msg |-> None,
               ts |-> Append(live, t)]

check_rate_limit_evicts_when_disabled(ts, t, maxq, window, en) ==
    LET live == Evict(ts, t, window) IN
    IF ~en
    THEN [outcome |-> "admit", allowed |-> TRUE, msg |-> None, ts |-> live]
    ELSE IF AtLimit(Len(live), maxq)
         THEN IF live = <<>>
              THEN [outcome |-> "raise", allowed |-> FALSE, msg |-> None,
                    ts |-> live]
              ELSE [outcome |-> "reject", allowed |-> FALSE,
                    msg |-> RateLimitMessage(Len(live), maxq, window,
                                             WaitTime(window, t, live)),
                    ts |-> live]
         ELSE [outcome |-> "admit", allowed |-> TRUE, msg |-> None,
               ts |-> Append(live, t)]

check_rate_limit(ts, t, maxq, window, en) ==
    IF ~en
    THEN [outcome |-> "admit", allowed |-> TRUE, msg |-> None, ts |-> ts]
    ELSE LET live == Evict(ts, t, window) IN
         IF AtLimit(Len(live), maxq)
         THEN IF live = <<>>
              THEN [outcome |-> "raise", allowed |-> FALSE, msg |-> None,
                    ts |-> live]
              ELSE [outcome |-> "reject", allowed |-> FALSE,
                    msg |-> RateLimitMessage(Len(live), maxq, window,
                                             WaitTime(window, t, live)),
                    ts |-> live]
         ELSE [outcome |-> "admit", allowed |-> TRUE, msg |-> None,
               ts |-> Append(live, t)]

Max0(x) == IF x > 0 THEN x ELSE 0

\* get_status as a function of the limiter's fields and the clock
get_status_without_eviction(ts, t, maxq, window, en) ==
    IF ~en
    THEN [status |-> [enabled |-> FALSE, current_queries |-> 0,
                      max_queries |-> maxq, time_window_seconds |-> window,
                      time_to_reset |-> 0, queries_remaining |-> None],
          ts |-> ts]
    ELSE [status |-> [enabled |-> TRUE, current_queries |-> Len(ts),
                      max_queries |-> maxq, time_window_seconds |-> window,
                      time_to_reset |->
                          IF ts # <<>> THEN Max0(window - (t - Head(ts)))
                          ELSE 0,
                      queries_remaining |-> <<Max0(maxq - Len(ts))>>],
          ts |-> ts]

get_status_consumes_slot(ts, t, maxq, window, en) ==
    IF ~en
    THEN [status |-> [enabled |-> FALSE, current_queries |-> 0,
                      max_queries |-> maxq, time_window_seconds |-> window,
                      time_to_reset |-> 0, queries_remaining |-> None],
          ts |-> ts]
    ELSE LET live == Evict(ts, t, window) IN
         [status |-> [enabled |-> TRUE, current_queries |-> Len(live),
                      max_queries |-> maxq, time_window_seconds |-> window,
                      time_to_reset |->
                          IF live # <<>> THEN Max0(window - (t - Head(live)))
                          ELSE 0,
                      queries_remaining |-> <<Max0(maxq - Len(live))>>],
          ts |-> IF Len(live) < maxq THEN Append(live, t) ELSE live]

get_status(ts, t, maxq, window, en) ==
    IF ~en
    THEN [status |-> [enabled |-> FALSE, current_queries |-> 0,
                      max_queries |-> maxq, time_window_seconds |-> window,
                      time_to_reset |-> 0, queries_remaining |-> None],
          ts |-> ts]
    ELSE LET live == Evict(ts, t, window) IN
         [status |-> [enabled |-> TRUE, current_queries |-> Len(live),
                      max_queries |-> maxq, time_window_seconds |-> window,
                      time_to_reset |->
                          IF live # <<>> THEN Max0(window - (t - Head(live)))
                          ELSE 0,
                      queries_remaining |-> <<Max0(maxq - Len(live))>>],
          ts |-> live]

\* reset: `self._query_timestamps.clear()`
reset_drops_oldest(ts) == IF ts = <<>> THEN ts ELSE Tail(ts)

reset(ts) == <<>>

\* what a method call returned: the (allowed, message) pair of a check with
\* its outcome, the dict of a status read, None where there is none
Ret(op, outcome, allowed, msg, status) ==
    [op |-> op, outcome |-> outcome, allowed |-> allowed, msg |-> msg,
     status |-> status]

\* ---- StarfishClient._request ----
\* `timeout_seconds: int = 20`
RequestTimeout == 20

\* A JSON value: a list with its items, a dict with the keys the client
\* looks at (None for a key the dict does not have), or a scalar.
JList(items) ==
    [type |-> "list", items |-> items, query_id |-> None, is_done |-> None,
     location |-> None, error |-> None]

JDict(query_id, is_done, location, error) ==
    [type |-> "dict", items |-> <<>>, query_id |-> query_id,
     is_done |-> is_done, location |-> location, error |-> error]

JScalar ==
    [type |-> "scalar", items |-> <<>>, query_id |-> None, is_done |-> None,
     location |-> None, error |-> None]

\* a body that is not JSON
NotJson ==
    [type |-> "text", items |-> <<>>, query_id |-> None, is_done |-> None,
     location |-> None, error |-> None]

\* what the backend answers to one request: an HTTP status with a body, no
\* answer at all, or a refused connection
Http(status, body) == [kind |-> "http", status |-> status, body |-> body]

NoAnswer == [kind |-> "timeout", status |-> 0, body |-> NotJson]

Refused == [kind |-> "client_error", status |-> 0, body |-> NotJson]

\* StarfishError(code, message, details); the message is the sequence of
\* the pieces of text it is put together from
StarfishError(code, message, details) ==
    [code |-> code, message |-> message, details |-> details]

\* StarfishError.__str__: f"[{self.code}] {self.message}"
Str(e) == <<"[", e.code, "] ">> \o e.message

\* ---- TokenManager ----
\* The body of an answer to POST /auth/: text that is not JSON, or a JSON
\* dict, string or list.  token is what the code takes the token from: the
\* text when it holds "sf-api-v1:", the value of the key "token" or
\* "access_token" of a dict, the string itself; None where there is none.
AuthBody(type, token) == [type |-> type, token |-> token]

\* `details or {}` of a StarfishError raised without details
NoDetails == [key \in {} |-> None]

AuthenticationFailed(message, details) ==
    StarfishError("AUTHENTICATION_FAILED", message, details)

\* _refresh_token as a function of the backend's answer: the token it
\* stores, the StarfishError it raises, or the other exception it lets
\* through (the session's own timeout is no aiohttp.ClientError)
refresh_token(answer) ==
    CASE answer.kind = "client_error" ->
           [kind |-> "StarfishError",
            value |-> AuthenticationFailed(
                          <<"Failed to connect for authentication">>,
                          [error |-> "ClientError"])]
      [] answer.kind = "timeout" ->
           [kind |-> "Exception", value |-> None]
      [] answer.status # 200 ->
           [kind |-> "StarfishError",
            value |-> AuthenticationFailed(
                          <<"Authentication failed: ",
                            ToString(answer.status)>>,
                          [response |-> "response"])]
      [] answer.body.type = "text" ->
           IF answer.body.token # None
           THEN [kind |-> "token", value |-> answer.body.token]
           ELSE [kind |-> "StarfishError",
                 value |-> AuthenticationFailed(
                               <<"Invalid authentication response format">>,
                               NoDetails)]
      [] answer.body.type = "dict" ->
           IF answer.body.token # None
           THEN [kind |-> "token", value |-> answer.body.token]
           ELSE [kind |-> "StarfishError",
                 value |-> AuthenticationFailed(
                               <<"No token found in authentication response">>,
                               NoDetails)]
      [] answer.body.type = "str" ->
           [kind |-> "token", value |-> answer.body.token]
      [] OTHER ->
           [kind |-> "StarfishError",
            value |-> AuthenticationFailed(
                          <<"Unexpected authentication response format">>,
                          NoDetails)]

\* get_token of a manager that holds no valid token: after the refresh,
\* `if not self.token` raises
get_token(answer) ==
    LET r == refresh_token(answer) IN
    IF r.kind = "token" /\ r.value = <<"">>
    THEN [kind |-> "StarfishError",
          value |-> AuthenticationFailed(<<"Failed to obtain bearer token">>,
                                         NoDetails)]
    ELSE r

\* what the backend may answer to POST /auth/
AuthAnswers ==
    {Refused, NoAnswer,
     Http(401, AuthBody("text", None)),
     Http(200, AuthBody("text", None)),
     Http(200, AuthBody("text", <<"sf-api-v1:t">>)),
     Http(200, AuthBody("dict", None)),
     Http(200, AuthBody("dict", <<"sf-api-v1:t">>)),
     Http(200, AuthBody("dict", <<"">>)),
     Http(200, AuthBody("str", <<"sf-api-v1:t">>)),
     Http(200, AuthBody("str", <<"">>)),
     Http(200, AuthBody("list", None))}

\* the errors get_token raises to _request, which fetches the token before
\* its try and so raises them to the client method
AuthErrors ==
    {get_token(answer).value :
        answer \in {a \in AuthAnswers : get_token(a).kind = "StarfishError"}}

\* what `self.session.request(...)` does when _request evaluates it: the
\* session of aiohttp returns the context manager of a request that is not
\* sent before the context is entered; a session put in its place (as the
\* tests of the repository do) raises asyncio.TimeoutError or
\* aiohttp.ClientError there
Sessions == {"returns", "TimeoutError", "ClientError"}

\* `except asyncio.TimeoutError`
RequestTimedOut(timeout_seconds) ==
    StarfishError("REQUEST_TIMEOUT",
                  <<"API request timed out after ",
                    ToString(timeout_seconds), " seconds">>,
                  [timeout_seconds |-> timeout_seconds,
                   endpoint |-> "endpoint"])

\* `except aiohttp.ClientError`
ConnectionFailed ==
    StarfishError("CONNECTION_FAILED",
                  <<"Failed to connect to Starfish API">>,
                  [error |-> "ClientError"])

\* _request as a function of the answer to the POST /auth/ of its
\* get_token and of what session.request does: the StarfishError or the
\* other exception it raises.  It returns no value: get_token is awaited
\* before the try and its errors pass; then
\* `async with asyncio.wait_for(self.session.request(...), ...)` hands
\* `async with` the coroutine of wait_for, which is no asynchronous context
\* manager, so a TypeError is raised before the request is sent, and
\* neither except clause of _request catches it.
request(auth, session, timeout_seconds) ==
    LET token == get_token(auth) IN
    IF token.kind # "token" THEN token
    ELSE CASE session = "TimeoutError" ->
                [kind |-> "StarfishError",
                 value |-> RequestTimedOut(timeout_seconds)]
           [] session = "ClientError" ->
                [kind |-> "StarfishError", value |-> ConnectionFailed]
           [] OTHER ->
                [kind |-> "Exception", value |-> None]

\* ---- StarfishClient.async_query and StarfishClient.query ----
\* `poll_interval = 2`
PollInterval == 2

\* `timeout: int = 300`
DefaultTimeout == 300

\* `max_attempts = timeout // poll_interval`
MaxAttempts(timeout) == timeout \div PollInterval

\* `timeout = aiohttp.ClientTimeout(total=30)` of the session of the
\* TokenManager
AuthTotal == 30

\* the one request a client call gets to send: the POST of the token
AuthRequest == <<"POST", "/auth/">>

\* aq is the one client call of the model.  pc is "idle" (not called),
\* "get_token" (suspended in the POST /auth/ of the get_token of its first
\* _request, the only await of the call that is reached) or "done" (it
\* raised: result says what).  method is the client method and caller who
\* called it; timeout is the argument of async_query; session is what
\* session.request did when _request got to it ("none": it did not);
\* requests are the requests the call has sent, in order; slept are the
\* seconds it has spent in asyncio.sleep and elapsed those since it was
\* called.
IdleAq ==
    [pc |-> "idle", method |-> "none", caller |-> "none", timeout |-> 0,
     session |-> "none", requests |-> <<>>, slept |-> 0, elapsed |-> 0,
     result |-> None]

\* StarfishEntry(**entry_data): a pydantic model or a ValidationError
ValidEntry(entry_data) == entry_data # "junk"

StarfishEntry(entry_data) == <<"StarfishEntry", entry_data>>

\* the call raises e
Raised(a, e) == [a EXCEPT !.pc = "done", !.result = <<"error", e>>]

\* the outermost `except Exception`: any error that is not a StarfishError
ExecutionFailed ==
    StarfishError("ASYNC_QUERY_FAILED", <<"Async query execution failed">>,
                  [error |-> "Exception"])

\* the error of the polling loop for a result that is no list
UnexpectedFormat ==
    StarfishError("ASYNC_QUERY_FAILED",
                  <<"Query completed but result format unexpected">>,
                  [result |-> "result"])

\* ---- build_starfish_query (tools/query_builder.py) ----
\* A Python str is the tuple of its characters; a token of the query is the
\* tuple of its key and the characters (or the printed number) of its value,
\* and the query string is the tuple of the pieces of its tokens with a " "
\* piece between two tokens.

MaxLen == 2

\* the characters the modelled strings are made of: a letter, the two shell
\* wildcards, the anchor and one regex character
Chars == {"a", "*", "?", "^", "("}

Strings == UNION {[1..n -> Chars] : n \in 0..MaxLen}

\* the parameters that build_starfish_query reads with arguments.get
PatternParameters ==
    {"name", "name_regex", "path_regex", "username_regex", "groupname_regex"}

TextParameters ==
    {"file_type", "path", "ext", "username", "groupname", "size", "nlinks",
     "iname", "iusername", "igroupname", "perm", "mtime", "ctime", "atime",
     "tag", "tag_explicit", "zone"}

NumberParameters == {"inode", "uid", "gid", "depth", "maxdepth"}

FlagParameters ==
    {"empty", "search_all", "versions", "children_only", "root_only"}

Parameters ==
    PatternParameters \cup TextParameters \cup NumberParameters
        \cup FlagParameters

\* arguments.get(p) is None for every p: the empty dictionary
NoArguments == [p \in Parameters |-> None]

\* s.startswith(c)
startswith(s, c) == s # <<>> /\ s[1] = c

\* c in s
Contains(s, c) == \E i \in 1..Len(s) : s[i] = c

\* the characters by which a name is taken for a regular expression
RegexChars == {"(", ")", "[", "]", "{", "}", "|", "+", "?"}

AnchorAlways(pattern) == <<"^">> \o pattern

\* if not pattern.startswith('^'): pattern = '^' + pattern
Anchor(pattern) ==
    IF startswith(pattern, "^") THEN pattern ELSE <<"^">> \o pattern

\* if text: query_parts.append(f"{key}{text}")
Text(key, v) ==
    IF v # None /\ v[1] # <<>> THEN << <<key>> \o v[1] >> ELSE <<>>

\* if name: ... the heuristic that chooses between name-re= and name=
Name(v) ==
    IF v # None /\ v[1] # <<>>
    THEN IF \/ startswith(v[1], "^")
            \/ \E c \in RegexChars : Contains(v[1], c)
         THEN << <<"name-re=">> \o Anchor(v[1]) >>
         ELSE IF Contains(v[1], "*") \/ Contains(v[1], "?")
              THEN << <<"name=">> \o v[1] >>
              ELSE << <<"name=">> \o v[1] >>
    ELSE <<>>

\* if pattern: (anchor it); query_parts.append(f"{key}{pattern}")
Regex(key, v) ==
    IF v # None /\ v[1] # <<>> THEN << <<key>> \o Anchor(v[1]) >> ELSE <<>>

\* if number: query_parts.append(f"{key}{number}")
Truthy(key, v) ==
    IF v # None /\ v[1] # 0 THEN << <<key, ToString(v[1])>> >> ELSE <<>>

\* if number is not None: query_parts.append(f"{key}{number}")
NotNone(key, v) ==
    IF v # None THEN << <<key, ToString(v[1])>> >> ELSE <<>>

FlagAlways(token, v) == IF v # None THEN << <<token>> >> ELSE <<>>

\* if flag: query_parts.append(token)
Flag(token, v) == IF v # None /\ v[1] THEN << <<token>> >> ELSE <<>>

\* if empty is not None: if empty: query_parts.append("empty")
Empty(v) == IF v # None THEN (IF v[1] THEN << <<"empty">> >> ELSE <<>>) ELSE <<>>

\* the list query_parts when the function reaches its join
query_parts(arguments) ==
    Text("type=", arguments.file_type)
        \o Name(arguments.name)
        \o Regex("name-re=", arguments.name_regex)
        \o Text("ppath=", arguments.path)
        \o Regex("ppath-re=", arguments.path_regex)
        \o Text("ext=", arguments.ext)
        \o Empty(arguments.empty)
        \o Truthy("inode=", arguments.inode)
        \o NotNone("uid=", arguments.uid)
        \o NotNone("gid=", arguments.gid)
        \o Text("username=", arguments.username)
        \o Regex("username-re=", arguments.username_regex)
        \o Text("groupname=", arguments.groupname)
        \o Regex("groupname-re=", arguments.groupname_regex)
        \o Text("size=", arguments.size)
        \o Text("nlinks=", arguments.nlinks)
        \o Text("iname=", arguments.iname)
        \o Text("iusername=", arguments.iusername)
        \o Text("igroupname=", arguments.igroupname)
        \o NotNone("depth=", arguments.depth)
        \o NotNone("maxdepth=", arguments.maxdepth)
        \o Text("perm=", arguments.perm)
        \o Text("mtime=", arguments.mtime)
        \o Text("ctime=", arguments.ctime)
        \o Text("atime=", arguments.atime)
        \o Flag("search-all", arguments.search_all)
        \o Flag("versions", arguments.versions)
        \o Flag("children-only", arguments.children_only)
        \o Flag("root-only", arguments.root_only)
        \o Text("tag=", arguments.tag)
        \o Text("tag-explicit=", arguments.tag_explicit)
        \o Text("zone=", arguments.zone)

\* " ".join(parts)
RECURSIVE Join(_)
Join(parts) ==
    IF parts = <<>> THEN <<>>
    ELSE IF Len(parts) = 1 THEN parts[1]
    ELSE parts[1] \o <<" ">> \o Join(Tail(parts))

build_starfish_query(arguments) == Join(query_parts(arguments))

\* no build_starfish_query call has been made
NoCall == [arguments |-> NoArguments, query |-> <<>>, done |-> FALSE]

\* ---- the Starfish backend ----
\* the answers of a backend that serves the query "q1": it accepts the
\* submission, says that the query is not done, or done with a location
Accepted == Http(202, JDict(<<"q1">>, None, None, None))

NotDone == Http(200, JDict(<<"q1">>, <<FALSE>>, None, None))

Done == Http(200, JDict(<<"q1">>, <<TRUE>>, <<"location">>, None))

\* backend is what the Starfish server would answer to each request of one
\* client call: auth to the POST /auth/; submit to the POST /async/query/;
\* status[i] to the i-th GET /async/query/{query_id} (the last one to every
\* later one); result[i] likewise to the i-th GET of the location; fallback
\* to the GET /async/query_result/{query_id}; delay is the number of
\* seconds it takes to answer a request
Backend(auth, delay, submit, status, result, fallback) ==
    [auth |-> auth, delay |-> delay, submit |-> submit, status |-> status,
     result |-> result, fallback |-> fallback]

\* a backend that issues a token and has the one entry of the query ready
\* at the first status poll
Ready ==
    Backend(Http(200, AuthBody("dict", <<"sf-api-v1:t">>)), 0, Accepted,
            <<Done>>, <<Http(200, JList(<<"entry1">>))>>,
            Http(200, JList(<<"entry1">>)))

\* ---- state after construction ----

IdleCall == [pc |-> "idle", check |-> "none"]

\* the twin limiter is constructed like the first: no timestamps.  outcome
\* is the outcome of its last check; widened says that time_window_seconds
\* was enlarged while the twin stored timestamps the first had dropped;
\* behind says that at its last check the twin still stored timestamps the
\* first had dropped and widened was false.
NewTwin == [ts |-> <<>>, outcome |-> "none", widened |-> FALSE,
            behind |-> FALSE]

Init ==
    /\ now = 0
    /\ max_queries \in 0..MaxQ
    /\ time_window_seconds \in 1..MaxWindow
    /\ enabled \in BOOLEAN
    /\ query_timestamps = <<>>
    /\ ret = Ret("init", "none", FALSE, None, None)
    /\ admitted = <<>>
    /\ calls = [c \in Calls |-> IdleCall]
    /\ out = [name |-> "", check |-> "none", requested |-> FALSE,
              result |-> None]
    /\ twin = NewTwin
    /\ aq = IdleAq
    /\ qb = NoCall
    /\ backend = Ready

\* ---- the clock ----
Tick ==
    /\ now < MaxTime
    /\ now' = now + 1
    /\ admitted' = SelectSeq(admitted, LAMBDA a : a >= now' - (MaxWindow + 1))
    /\ UNCHANGED <<side, limiter, ret, tools>>

\* ---- direct calls of the RateLimiter methods ----
CheckRateLimit ==
    LET r == check_rate_limit(query_timestamps, now, max_queries,
                              time_window_seconds, enabled) IN
    /\ Len(admitted) < MaxAdmitted
    /\ query_timestamps' = r.ts
    /\ ret' = Ret("check", r.outcome, r.allowed, r.msg, None)
    /\ admitted' = IF r.outcome = "admit" THEN Append(admitted, now)
                   ELSE admitted
    /\ UNCHANGED <<side, now, max_queries, time_window_seconds, enabled, tools>>

Reset ==
    /\ query_timestamps' = reset(query_timestamps)
    /\ ret' = Ret("reset", "none", FALSE, None, None)
    /\ UNCHANGED <<side, now, max_queries, time_window_seconds, enabled, admitted,
                   tools>>

GetStatus ==
    LET r == get_status(query_timestamps, now, max_queries,
                        time_window_seconds, enabled) IN
    /\ query_timestamps' = r.ts
    /\ ret' = Ret("status", "none", FALSE, None, r.status)
    /\ UNCHANGED <<side, now, max_queries, time_window_seconds, enabled, admitted,
                   tools>>

Opt(S) == {None} \cup {<<v>> : v \in S}

UpdateConfig(mq, tw, en) ==
    /\ max_queries' = IF mq # None THEN mq[1] ELSE max_queries
    /\ time_window_seconds' = IF tw # None THEN tw[1] ELSE time_window_seconds
    /\ enabled' = IF en # None THEN en[1] ELSE enabled
    /\ ret' = Ret("update", "none", FALSE, None, None)
    /\ UNCHANGED <<side, now, query_timestamps, admitted, tools>>

\* ---- two limiters given the same calls, one of them without get_status ----

\* check_rate_limit() on both limiters at the same clock reading
TwinCheckRateLimit ==
    LET r == check_rate_limit(query_timestamps, now, max_queries,
                              time_window_seconds, enabled)
        t == check_rate_limit(twin.ts, now, max_queries,
                              time_window_seconds, enabled) IN
    /\ query_timestamps' = r.ts
    /\ ret' = Ret("check", r.outcome, r.allowed, r.msg, None)
    /\ twin' = [ts |-> t.ts, outcome |-> t.outcome,
                widened |-> twin.widened /\ t.ts # r.ts,
                behind |-> twin.ts # query_timestamps /\ ~twin.widened]
    /\ UNCHANGED <<now, max_queries, time_window_seconds, enabled, admitted,
                   tools, aq, rest>>

\* reset() on both limiters
TwinReset ==
    /\ query_timestamps' = reset(query_timestamps)
    /\ ret' = Ret("reset", "none", FALSE, None, None)
    /\ twin' = [twin EXCEPT !.ts = reset(twin.ts), !.widened = FALSE]
    /\ UNCHANGED <<now, max_queries, time_window_seconds, enabled, admitted,
                   tools, aq, rest>>

\* update_config(...) on both limiters, which share the configuration
TwinUpdateConfig(mq, tw, en) ==
    /\ max_queries' = IF mq # None THEN mq[1] ELSE max_queries
    /\ time_window_seconds' = IF tw # None THEN tw[1] ELSE time_window_seconds
    /\ enabled' = IF en # None THEN en[1] ELSE enabled
    /\ ret' = Ret("update", "none", FALSE, None, None)
    /\ twin' = [twin EXCEPT !.widened =
                   @ \/ (/\ twin.ts # query_timestamps
                         /\ time_window_seconds' > time_window_seconds)]
    /\ UNCHANGED <<now, query_timestamps, admitted, tools, aq, rest>>

\* ---- handle_tool_call ----
\* calls[c] is invocation c while it runs: pc is "idle" (not running),
\* "query" (suspended in client.query) or "async_query" (suspended in
\* client.async_query); check is the outcome of its own check_rate_limit.
\* A returning invocation leaves in out what it returned, the outcome of
\* its check and whether it had called the client, and its slot idle again.

Return(c, name, check, requested, result) ==
    /\ calls' = [calls EXCEPT ![c] = IdleCall]
    /\ out' = [name |-> name, check |-> check, requested |-> requested,
               result |-> result]

\* `if not allowed: return {...error_message...}`
BlockedNever(r) == FALSE

Blocked(r) == ~r.allowed

\* execute_starfish_query: `if use_async and volumes_and_paths` picks the
\* client method
QueryPath(use_async, has_volumes) ==
    IF use_async /\ has_volumes THEN "async_query" ELSE "query"

\* name == "starfish_query", up to the first suspension point.  typed says
\* that every argument has the type of its schema: build_starfish_query
\* raises on one that has not (name=5: AttributeError), after the check
\* has admitted the call and before the client is called
HandleQuery(c, use_async, has_volumes, typed) ==
    LET r == check_rate_limit(query_timestamps, now, max_queries,
                              time_window_seconds, enabled) IN
    /\ calls[c].pc = "idle"
    /\ Len(admitted) < MaxAdmitted
    /\ query_timestamps' = r.ts
    /\ admitted' = IF r.outcome = "admit" THEN Append(admitted, now)
                   ELSE admitted
    /\ IF r.outcome = "raise"
       THEN Return(c, "starfish_query", r.outcome, FALSE,
                   <<"Tool execution failed: ", "deque index out of range">>)
       ELSE IF Blocked(r)
       THEN Return(c, "starfish_query", r.outcome, FALSE, r.msg)
       ELSE IF ~typed
       THEN Return(c, "starfish_query", r.outcome, FALSE,
                   <<"Tool execution failed: ", "Exception">>)
       ELSE /\ calls' = [calls EXCEPT ![c] =
                 [pc |-> QueryPath(use_async, has_volumes),
                  check |-> r.outcome]]
            /\ out' = out
    /\ UNCHANGED <<side, now, max_queries, time_window_seconds, enabled, ret>>

\* name == "starfish_reset_rate_limit": reset, then get_status for the text
HandleReset(c) ==
    LET r == get_status(reset(query_timestamps), now, max_queries,
                        time_window_seconds, enabled) IN
    /\ calls[c].pc = "idle"
    /\ query_timestamps' = r.ts
    /\ Return(c, "starfish_reset_rate_limit", "none", FALSE,
              <<"Rate limit reset", r.status.max_queries,
                r.status.time_window_seconds>>)
    /\ UNCHANGED <<side, now, max_queries, time_window_seconds, enabled, ret,
                   admitted>>

\* name == "starfish_get_rate_limit_status"
HandleStatus(c) ==
    LET r == get_status(query_timestamps, now, max_queries,
                        time_window_seconds, enabled) IN
    /\ calls[c].pc = "idle"
    /\ query_timestamps' = r.ts
    /\ Return(c, "starfish_get_rate_limit_status", "none", FALSE,
              IF r.status.enabled
              THEN <<"Rate Limit Status", r.status.current_queries,
                     r.status.max_queries, r.status.time_window_seconds,
                     r.status.queries_remaining[1], r.status.time_to_reset>>
              ELSE <<"Rate limiting is disabled.">>)
    /\ UNCHANGED <<side, now, max_queries, time_window_seconds, enabled, ret,
                   admitted>>

\* any other name
HandleUnknown(c) ==
    /\ calls[c].pc = "idle"
    /\ Return(c, "unknown", "none", FALSE, <<"Unknown tool", "unknown">>)
    /\ UNCHANGED <<side, now, limiter, ret, admitted>>

\* the client method a suspended call awaits: client.query or
\* client.async_query for starfish_query, the one method the management
\* function calls for a management tool
ClientMethod(pc) ==
    CASE pc = "starfish_list_volumes" -> "list_volumes"
      [] pc = "starfish_list_zones" -> "list_zones"
      [] pc = "starfish_get_zone" -> "get_zone"
      [] pc = "starfish_get_volume" -> "get_volume"
      [] pc = "starfish_get_tagset" -> "get_tagset"
      [] pc = "starfish_list_tagsets" -> "list_tagsets"
      [] pc = "starfish_list_tags" -> "list_collections"
      [] OTHER -> pc

ClientMethods ==
    {"query", "async_query", "list_volumes", "list_zones", "get_zone",
     "get_volume", "get_tagset", "list_tagsets", "list_collections"}

\* the outermost `except Exception` of client.query
QueryFailed ==
    StarfishError("QUERY_FAILED", <<"Query execution failed">>,
                  [error |-> "Exception"])

\* the StarfishError the outermost `except Exception` of a client method
\* puts in the place of any error that is not a StarfishError
Failed(method) ==
    CASE method = "query" -> QueryFailed
      [] method = "async_query" -> ExecutionFailed
      [] method = "list_volumes" ->
           StarfishError("LIST_VOLUMES_FAILED", <<"Failed to list volumes">>,
                         [error |-> "Exception"])
      [] method = "list_zones" ->
           StarfishError("LIST_ZONES_FAILED", <<"Failed to list zones">>,
                         [error |-> "Exception"])
      [] method = "get_zone" ->
           StarfishError("GET_ZONE_FAILED", <<"Failed to get zone">>,
                         [zone_id |-> "zone_id", error |-> "Exception"])
      [] method = "get_volume" ->
           StarfishError("GET_VOLUME_FAILED", <<"Failed to get volume">>,
                         [volume_id |-> "volume_id", error |-> "Exception"])
      [] method = "get_tagset" ->
           StarfishError("GET_TAGSET_FAILED", <<"Failed to get tagset">>,
                         [tagset_name |-> "tagset_name",
                          error |-> "Exception"])
      [] method = "list_tagsets" ->
           StarfishError("LIST_TAGSETS_FAILED", <<"Failed to list tagsets">>,
                         [error |-> "Exception"])
      [] method = "list_collections" ->
           StarfishError("LIST_COLLECTIONS_FAILED",
                         <<"Failed to list collections">>,
                         [error |-> "Exception"])

\* how an awaited tool function ends: it returns its content, it raises a
\* StarfishError or another Exception, or the task of the call is cancelled
\* while it is suspended and asyncio.CancelledError is thrown into it
Completes == [kind |-> "entries", error |-> None]

Raises(e) == [kind |-> "StarfishError", error |-> <<e>>]

RaisesOther == [kind |-> "Exception", error |-> None]

Cancelled == [kind |-> "CancelledError", error |-> None]

\* the errors the client methods raise that the model tells apart
ToolErrors ==
    {RequestTimedOut(RequestTimeout), ConnectionFailed, UnexpectedFormat}
        \cup {Failed(method) : method \in ClientMethods}
        \cup AuthErrors

Endings ==
    {Completes, RaisesOther, Cancelled} \cup {Raises(e) : e \in ToolErrors}

\* the endings of a call suspended in one client method: of the errors,
\* the method raises those of _request and of the get_token in it, its
\* own, and the one it puts in the place of any other
Raisable(method, e) ==
    \/ e = RequestTimedOut(RequestTimeout)
    \/ e = ConnectionFailed
    \/ e.code = "AUTHENTICATION_FAILED" /\ e \in AuthErrors
    \/ e = Failed(method)
    \/ method = "async_query" /\ e = UnexpectedFormat

EndsWith(method, ending) ==
    ending.kind = "StarfishError" => Raisable(method, ending.error[1])

\* what handle_tool_call returns when the awaited tool function ends: its
\* result, or the text of the except clause that caught its error
QueryResultWithoutError(ending) ==
    CASE ending.kind = "entries" -> <<"results">>
      [] ending.kind = "StarfishError" -> <<"Starfish API error: ">>
      [] ending.kind = "Exception" ->
           <<"Tool execution failed: ", "Exception">>

QueryResult(ending) ==
    CASE ending.kind = "entries" -> <<"results">>
      [] ending.kind = "StarfishError" ->
           <<"Starfish API error: ">> \o Str(ending.error[1])
      [] ending.kind = "Exception" ->
           <<"Tool execution failed: ", "Exception">>

\* neither `except StarfishError` nor `except Exception` catches a
\* BaseException: the call is over, its caller gets the exception and no
\* text
Escapes(c) ==
    /\ calls' = [calls EXCEPT ![c] = IdleCall]
    /\ out' = out

\* the client call of a suspended starfish_query ends, and the call returns
\* or lets the CancelledError through
QueryEnds(c, ending) ==
    /\ calls[c].pc \in {"query", "async_query"}
    /\ EndsWith(ClientMethod(calls[c].pc), ending)
    /\ IF ending.kind = "CancelledError"
       THEN Escapes(c)
       ELSE Return(c, "starfish_query", calls[c].check, TRUE,
                   QueryResult(ending))
    /\ UNCHANGED <<side, now, limiter, ret, admitted>>

\* the tools that only await one management function of the client
ManagementTools ==
    {"starfish_list_volumes", "starfish_list_zones", "starfish_get_zone",
     "starfish_get_volume", "starfish_get_tagset", "starfish_list_tagsets",
     "starfish_list_tags"}

\* `arguments["tagset_name"]`, `arguments["zone_id"]`,
\* `arguments["volume_id"]`: the argument a management function reads
\* before its await and cannot do without (None: there is none)
RequiredArgument(name) ==
    CASE name = "starfish_get_tagset" -> <<"tagset_name">>
      [] name = "starfish_get_zone" -> <<"zone_id">>
      [] name = "starfish_get_volume" -> <<"volume_id">>
      [] OTHER -> None

\* name is one of them, up to the await.  given says that the arguments
\* hold the required one: without it the function raises KeyError before
\* it calls the client, and the call returns str(KeyError) as its text
HandleManagement(c, name, given) ==
    /\ calls[c].pc = "idle"
    /\ IF RequiredArgument(name) # None /\ ~given
       THEN Return(c, name, "none", FALSE,
                   <<"Tool execution failed: ", "'",
                     RequiredArgument(name)[1], "'">>)
       ELSE /\ calls' = [calls EXCEPT ![c] = [pc |-> name, check |-> "none"]]
            /\ out' = out
    /\ UNCHANGED <<side, now, limiter, ret, admitted>>

\* the awaited management function ends, and the call returns or lets the
\* CancelledError through
ManagementEnds(c, ending) ==
    /\ calls[c].pc \in ManagementTools
    /\ EndsWith(ClientMethod(calls[c].pc), ending)
    /\ IF ending.kind = "CancelledError"
       THEN Escapes(c)
       ELSE Return(c, calls[c].pc, "none", TRUE, QueryResult(ending))
    /\ UNCHANGED <<side, now, limiter, ret, admitted>>

\* ---- what the backend may answer ----
MaxTimeoutArg == 7

\* the timeout arguments of direct calls
Timeouts == 0..MaxTimeoutArg

\* the seconds a backend takes to answer a request: none, or all that
\* _request means to allow
Delays == {0, RequestTimeout}

Payloads == {<<>>, <<"entry1">>, <<"entry1", "entry2">>, <<"junk">>}

ErrorBodies ==
    {NotJson,
     JDict(None, None, None, <<"Not Found">>),
     JDict(None, None, None, <<"not finished yet">>),
     JDict(None, None, None, <<"internal error">>)}

ErrorAnswers ==
    {Http(s, b) : s \in {400, 404, 500}, b \in ErrorBodies}
        \cup {NoAnswer, Refused}

SubmitAnswers ==
    {Http(200, JList(p)) : p \in Payloads}
        \cup {Accepted,
              Http(200, JDict(None, None, None, None)),
              Http(200, JScalar)}

StatusAnswers ==
    {<<Done>>, <<NotDone, Done>>, <<NotDone, NotDone, Done>>, <<NotDone>>}
        \cup {<<answer>> : answer \in ErrorAnswers}

ResultAnswers ==
    {<<Http(200, JList(p))>> : p \in Payloads}
        \cup {<<Http(400, b), Http(200, JList(<<"entry1">>))>> :
                 b \in {NotJson, JDict(None, None, None, <<"not finished yet">>)}}
        \cup {<<Http(200, JDict(None, None, None, None))>>}
        \cup {<<answer>> : answer \in ErrorAnswers}

FallbackAnswers ==
    {Http(200, JList(<<"entry1">>)), Http(400, NotJson), Http(404, NotJson),
     Http(500, NotJson)}

\* the backends of the model: Ready, with its answers of one kind replaced
Backends ==
    {[Ready EXCEPT !.auth = a, !.delay = d] : a \in AuthAnswers, d \in Delays}
        \cup {[Ready EXCEPT !.submit = s] : s \in SubmitAnswers}
        \cup {[Ready EXCEPT !.status = s, !.delay = d] :
                 s \in StatusAnswers, d \in Delays}
        \cup {[Ready EXCEPT !.result = r, !.fallback = f] :
                 r \in ResultAnswers, f \in FallbackAnswers}

\* ---- the steps of a client call, one per await that is reached ----

\* the call has got to `await self.token_manager.get_token()` of the
\* _request of its first request, and the POST /auth/ is sent
Called(method, caller, timeout) ==
    [IdleAq EXCEPT !.pc = "get_token", !.method = method, !.caller = caller,
                   !.timeout = timeout, !.requests = <<AuthRequest>>]

\* a direct call of client.async_query
AsyncQuery(timeout) ==
    /\ aq.pc = "idle"
    /\ aq' = Called("async_query", "direct", timeout)
    /\ UNCHANGED <<now, limiter, ret, admitted, tools, twin, rest>>

\* execute_starfish_query of an admitted call whose arguments are well
\* typed: client.async_query without a timeout, or client.query
ExecuteStarfishQuery(use_async, has_volumes) ==
    /\ aq.pc = "idle"
    /\ aq' = Called(QueryPath(use_async, has_volumes), "starfish_query",
                    DefaultTimeout)
    /\ UNCHANGED <<now, limiter, ret, admitted, tools, twin, rest>>

\* the seconds until the POST /auth/ is over: the backend's delay, none
\* for a refused connection, the session's total timeout without an answer
AuthSeconds(b) ==
    CASE b.auth.kind = "timeout" -> AuthTotal
      [] b.auth.kind = "client_error" -> 0
      [] OTHER -> b.delay

\* the POST /auth/ is over.  _request raises what request says, at once:
\* async_query and query pass a StarfishError on and raise their *_FAILED
\* error in the place of any other exception.  No request but the POST
\* /auth/ is sent and no asyncio.sleep is reached.
GetTokenEnds(session) ==
    LET r == request(backend.auth, session, RequestTimeout) IN
    /\ aq.pc = "get_token"
    /\ aq' = [Raised(aq, IF r.kind = "StarfishError" THEN r.value
                         ELSE Failed(aq.method))
                 EXCEPT !.session = IF get_token(backend.auth).kind = "token"
                                    THEN session ELSE "none",
                        !.elapsed = AuthSeconds(backend)]
    /\ UNCHANGED <<now, limiter, ret, admitted, tools, twin, rest>>

\* ---- build_starfish_query calls ----

\* the values a tool call can give a parameter
Values(p) ==
    IF p \in PatternParameters THEN {<<s>> : s \in Strings}
    ELSE IF p \in TextParameters THEN {<< <<>> >>, << <<"v">> >>}
    ELSE IF p \in NumberParameters THEN {<<0>>, <<1>>}
    ELSE {<<FALSE>>, <<TRUE>>}

\* the arguments of a tool call that gives p the value v and q the value w
\* (None: not given)
Arguments(p, v, q, w) == [NoArguments EXCEPT ![p] = v, ![q] = w]

\* build_starfish_query(arguments) runs and returns its query string
BuildStarfishQuery ==
    /\ ~qb.done
    /\ qb' = [qb EXCEPT !.query = build_starfish_query(qb.arguments),
                        !.done = TRUE]
    /\ UNCHANGED <<now, limiter, ret, admitted, tools, twin, aq, backend>>

\* ---- specifications ----

\* the RateLimiter driven directly through its five methods
Next ==
    \/ Tick
    \/ CheckRateLimit
    \/ Reset
    \/ GetStatus
    \/ \E mq \in Opt(0..MaxQ), tw \in Opt(1..MaxWindow), en \in Opt(BOOLEAN) :
          UpdateConfig(mq, tw, en)

Spec == Init /\ [][Next]_vars

\* the RateLimiter with its configuration left alone and never reset
NextFixed ==
    \/ Tick
    \/ CheckRateLimit
    \/ GetStatus

SpecFixed == Init /\ [][NextFixed]_vars

\* two limiters with one configuration and one clock: every call is made
\* on both, except get_status, which only the first is given
NextTwin ==
    \/ Tick
    \/ GetStatus
    \/ TwinCheckRateLimit
    \/ TwinReset
    \/ \E mq \in Opt(0..MaxQ), tw \in Opt(1..MaxWindow), en \in Opt(BOOLEAN) :
          TwinUpdateConfig(mq, tw, en)

SpecTwin == Init /\ [][NextTwin]_vars

\* direct async_query calls, each against one backend
InitClient ==
    /\ now = 0
    /\ max_queries = MaxQ
    /\ time_window_seconds = MaxWindow
    /\ enabled = TRUE
    /\ query_timestamps = <<>>
    /\ ret = Ret("init", "none", FALSE, None, None)
    /\ admitted = <<>>
    /\ calls = [c \in Calls |-> IdleCall]
    /\ out = [name |-> "", check |-> "none", requested |-> FALSE,
              result |-> None]
    /\ twin = NewTwin
    /\ aq = IdleAq
    /\ qb = NoCall
    /\ backend \in Backends

NextAsync ==
    \/ \E timeout \in Timeouts : AsyncQuery(timeout)
    \/ \E session \in Sessions : GetTokenEnds(session)

SpecAsync == InitClient /\ [][NextAsync]_vars

\* the same, where the POST /auth/ is answered or given up by its session
SpecAsyncFair ==
    SpecAsync /\ WF_vars(\E session \in Sessions : GetTokenEnds(session))

\* the client call of one starfish_query tool call
NextExecute ==
    \/ \E a \in BOOLEAN, v \in BOOLEAN : ExecuteStarfishQuery(a, v)
    \/ \E session \in Sessions : GetTokenEnds(session)

SpecExecute == InitClient /\ [][NextExecute]_vars

\* concurrent handle_tool_call invocations sharing one limiter whose
\* configuration is left alone and which is never reset
NextTools ==
    \/ Tick
    \/ \E c \in Calls, a \in BOOLEAN, v \in BOOLEAN, t \in BOOLEAN :
          HandleQuery(c, a, v, t)
    \/ \E c \in Calls : HandleStatus(c)
    \/ \E c \in Calls : HandleUnknown(c)
    \/ \E c \in Calls, ending \in Endings : QueryEnds(c, ending)

SpecTools == Init /\ [][NextTools]_vars

\* the same with the reset tool
NextDispatch ==
    \/ NextTools
    \/ \E c \in Calls : HandleReset(c)

SpecDispatch == Init /\ [][NextDispatch]_vars

\* one handle_tool_call at a time, of any tool, at one clock reading
NextHandler ==
    \/ \E c \in {1}, a \in BOOLEAN, v \in BOOLEAN, t \in BOOLEAN :
          HandleQuery(c, a, v, t)
    \/ \E c \in {1}, ending \in Endings : QueryEnds(c, ending)
    \/ \E c \in {1}, name \in ManagementTools, given \in BOOLEAN :
          HandleManagement(c, name, given)
    \/ \E c \in {1}, ending \in Endings : ManagementEnds(c, ending)
    \/ \E c \in {1} : HandleReset(c)
    \/ \E c \in {1} : HandleStatus(c)
    \/ \E c \in {1} : HandleUnknown(c)

SpecHandler == Init /\ [][NextHandler]_vars

\* build_starfish_query applied to the arguments of one tool call, which
\* gives at most two parameters, at most one of them a pattern
NextBuilder == BuildStarfishQuery

InitBuilder ==
    /\ now = 0
    /\ max_queries = MaxQ
    /\ time_window_seconds = MaxWindow
    /\ enabled = TRUE
    /\ query_timestamps = <<>>
    /\ ret = Ret("init", "none", FALSE, None, None)
    /\ admitted = <<>>
    /\ calls = [c \in Calls |-> IdleCall]
    /\ out = [name |-> "", check |-> "none", requested |-> FALSE,
              result |-> None]
    /\ twin = NewTwin
    /\ aq = IdleAq
    /\ \E p \in Parameters, q \in Parameters \ PatternParameters :
          \E v \in {None} \cup Values(p), w \in {None} \cup Values(q) :
              qb = [NoCall EXCEPT !.arguments = Arguments(p, v, q, w)]
    /\ backend = Ready

SpecBuilder == InitBuilder /\ [][NextBuilder]_vars

\* ---- properties ----

InFlight == {"query", "async_query"}

\* the admitted checks whose times lie in the closed interval [a, a + window]
AdmittedWithin(a, window) ==
    {j \in 1..Len(admitted) : admitted[j] >= a /\ admitted[j] <= a + window}

\* after is what is left of before once its expired head entries are dropped
OnlyExpiredDropped(before, after, t, window) ==
    \E k \in 0..Len(before) :
        /\ after = SubSeq(before, k + 1, Len(before))
        /\ \A i \in 1..k : t - before[i] > window

\* C1: for an enabled limiter with fixed configuration and no reset, every
\* closed interval of length time_window_seconds holds at most max_queries
\* admitted checks (it is enough to look at the intervals that start at an
\* admission).
C1_WindowBound ==
    enabled =>
        \A i \in 1..Len(admitted) :
            Cardinality(AdmittedWithin(admitted[i], time_window_seconds))
                <= max_queries

\* more admissions than the quota, the newest of them one tick after the
\* window of an older one closed
C1_Witness ==
    /\ enabled
    /\ max_queries >= 1
    /\ Len(admitted) > max_queries
    /\ admitted[Len(admitted)] =
           admitted[Len(admitted) - max_queries] + time_window_seconds + 1

\* C2: with concurrent starfish_query calls interleaving at their suspension
\* points, the limiter never stores more than max_queries timestamps and no
\* window holds more than max_queries admitted calls: no free slot is
\* handed out twice.
C2_NoDoubleAdmission ==
    enabled =>
        /\ Len(query_timestamps) <= max_queries
        /\ \A i \in 1..Len(admitted) :
               Cardinality(AdmittedWithin(admitted[i], time_window_seconds))
                   <= max_queries

\* one call is still awaiting the backend when another is turned away
C2_Witness ==
    /\ enabled
    /\ out.check = "reject"
    /\ Len(query_timestamps) = max_queries
    /\ \E c \in Calls : calls[c].pc \in InFlight /\ calls[c].check = "admit"

\* C3: a starfish_query call the limiter rejected has returned the
\* rate-limit message as its text without calling the client, so without
\* sending any request; and a call that went to the client (the only
\* place a request is sent from) was admitted by its own check before.
C3_RejectedSendsNothing ==
    /\ out.check = "reject" =>
          /\ ~out.requested
          /\ out.result # None
          /\ out.result[1] = "RATE LIMIT EXCEEDED"
    /\ out.requested => out.name = "starfish_query" /\ out.check = "admit"
    /\ \A c \in Calls :
          /\ calls[c].check = "reject" => calls[c].pc = "idle"
          /\ calls[c].pc \in InFlight => calls[c].check = "admit"

\* a call was rejected while an admitted one is suspended in the client
C3_Witness ==
    /\ out.name = "starfish_query"
    /\ out.check = "reject"
    /\ \E c \in Calls : calls[c].pc = "async_query"

\* C4: a rejected check_rate_limit leaves the stored timestamps as they
\* were, apart from dropping the expired entries at the front; its own time
\* is not recorded.
C4_RejectedNotRecorded ==
    [][(CheckRateLimit /\ ret'.outcome = "reject") =>
           OnlyExpiredDropped(query_timestamps, query_timestamps', now,
                              time_window_seconds)]_vars

\* a rejection at a time later than every stored timestamp
C4_Witness ==
    /\ ret.op = "check"
    /\ ret.outcome = "reject"
    /\ query_timestamps # <<>>
    /\ query_timestamps[Len(query_timestamps)] < now

\* C5: with the configuration unchanged, a check made strictly more than
\* time_window_seconds after the oldest recorded admission is admitted.
C5_WindowSlides ==
    [][(/\ CheckRateLimit
        /\ enabled
        /\ query_timestamps # <<>>
        /\ now - Head(query_timestamps) > time_window_seconds)
       => ret'.outcome = "admit"]_vars

\* max_queries admissions had filled one window, and the newest admission
\* came after the window of the last of them had passed
C5_Witness ==
    /\ enabled
    /\ ret.op = "check"
    /\ ret.outcome = "admit"
    /\ max_queries >= 1
    /\ Len(admitted) > max_queries
    /\ admitted[Len(admitted)] = now
    /\ admitted[Len(admitted) - 1] < now - time_window_seconds
    /\ admitted[Len(admitted) - 1] - admitted[Len(admitted) - max_queries]
           <= time_window_seconds

\* C6: a rejection reports the wait time time_window_seconds - (now - oldest
\* timestamp left after eviction), and that is never negative.
C6_WaitTime ==
    [][(CheckRateLimit /\ ret'.outcome = "reject") =>
           /\ ret'.msg[5] =
                 time_window_seconds - (now - Head(query_timestamps'))
           /\ ret'.msg[5] >= 0]_vars

\* a rejection with two different timestamps stored, at the last instant of
\* the oldest one's window
C6_Witness ==
    /\ ret.op = "check"
    /\ ret.outcome = "reject"
    /\ Len(query_timestamps) >= 2
    /\ query_timestamps[1] < query_timestamps[2]
    /\ ret.msg[5] = 0

\* C7: with max_queries = 0, an enabled limiter holding no admissions
\* rejects: allowed is False and the message reports 0/0 queries.
C7_ZeroQuotaRejects ==
    [][(/\ CheckRateLimit
        /\ enabled
        /\ max_queries = 0
        /\ query_timestamps = <<>>)
       => /\ ret'.outcome = "reject"
          /\ ~ret'.allowed
          /\ ret'.msg # None
          /\ ret'.msg[2] = 0
          /\ ret'.msg[3] = 0]_vars

\* C8: a disabled limiter answers every check with (True, None) and leaves
\* the stored timestamps exactly as they were.
C8_DisabledNoMutation ==
    [][(CheckRateLimit /\ ~enabled) =>
           /\ ret'.allowed
           /\ ret'.msg = None
           /\ query_timestamps' = query_timestamps]_vars

\* a check on a disabled limiter that still stores an expired timestamp
C8_Witness ==
    /\ ~enabled
    /\ ret.op = "check"
    /\ ret.allowed
    /\ query_timestamps # <<>>
    /\ now - Head(query_timestamps) > time_window_seconds

\* C9: reset() leaves no recorded admission whatever was stored; a status
\* read that follows reports nothing used and max_queries remaining; and a
\* check made while fewer than max_queries timestamps are stored is
\* admitted, so the max_queries checks that follow a reset are admitted
\* however little time has elapsed.
C9_ResetRestoresQuota ==
    [][/\ Reset => query_timestamps' = <<>>
       /\ (ret.op = "reset" /\ GetStatus /\ enabled) =>
              /\ ret'.status.current_queries = 0
              /\ ret'.status.queries_remaining = <<max_queries>>
       /\ (CheckRateLimit /\ Len(query_timestamps) < max_queries) =>
              ret'.outcome = "admit"]_vars

\* a reset right after the quota was used up, with no time elapsed
C9_Witness ==
    /\ ret.op = "reset"
    /\ enabled
    /\ max_queries >= 1
    /\ Len(admitted) >= max_queries
    /\ admitted[Len(admitted) - max_queries + 1] = now
    /\ query_timestamps = <<>>

\* C10: get_status on an enabled limiter drops every timestamp older than
\* now - time_window_seconds, keeps the others, and reports the number kept
\* as current_queries; that is 0 when the newest one is older than the
\* window.
C10_StatusEvicts ==
    [][(GetStatus /\ enabled) =>
           /\ query_timestamps' =
                 SelectSeq(query_timestamps,
                           LAMBDA x : now - x <= time_window_seconds)
           /\ ret'.status.current_queries = Len(query_timestamps')
           /\ (/\ query_timestamps # <<>>
               /\ now - query_timestamps[Len(query_timestamps)]
                     > time_window_seconds)
              => ret'.status.current_queries = 0]_vars

\* a status read reporting 0 after the window of the last admission passed
C10_Witness ==
    /\ ret.op = "status"
    /\ ret.status.enabled
    /\ ret.status.current_queries = 0
    /\ max_queries >= 1
    /\ admitted # <<>>
    /\ admitted[Len(admitted)] < now - time_window_seconds

\* after is before without some of its oldest entries
SuffixOf(before, after) ==
    \E k \in 0..Len(before) : after = SubSeq(before, k + 1, Len(before))

\* C11 as stated: get_status never appends a timestamp, and every check
\* has the same outcome on the limiter that was given get_status calls as on
\* the one that was given none, whatever else was called in between.
C11_StatusNeverChangesOutcome ==
    [][/\ GetStatus => SuffixOf(query_timestamps, query_timestamps')
       /\ TwinCheckRateLimit => ret'.outcome = twin'.outcome]_vars

\* C11: get_status never appends a timestamp, and a check has the same
\* outcome with and without the get_status calls before it, provided
\* time_window_seconds was not enlarged between a get_status call that
\* dropped timestamps and the check.
C11_StatusConsumesNothing ==
    [][/\ GetStatus => SuffixOf(query_timestamps, query_timestamps')
       /\ (TwinCheckRateLimit /\ ~twin.widened) =>
              /\ ret'.outcome = twin'.outcome
              /\ enabled => query_timestamps' = twin'.ts]_vars

\* a check was rejected on both limiters after a get_status call had
\* dropped a timestamp that the other limiter still stored
C11_Witness ==
    /\ enabled
    /\ ret.op = "check"
    /\ ret.outcome = "reject"
    /\ twin.behind

\* ---- properties of async_query ----

\* the entries a list of well-formed entry records is returned as
EntriesOf(items) == [i \in DOMAIN items |-> StarfishEntry(items[i])]

\* the requests of the polling loop for the query "q1"
StatusRequest == <<"GET", "/async/query/", "q1">>

ResultRequest == <<"GET", "location">>

CanonicalRequest == <<"GET", "/async/query_result/", "q1">>

\* how often the call has sent the request
Sent(a, r) == Cardinality({i \in DOMAIN a.requests : a.requests[i] = r})

Polls(a) == Sent(a, StatusRequest)

\* the async_query call is over, and nothing stood between it and the
\* backend: the backend issued a token and the session is the one of
\* aiohttp
Served(a, b) ==
    /\ a.pc = "done"
    /\ a.method = "async_query"
    /\ a.session = "returns"
    /\ get_token(b.auth).kind = "token"

\* an answer 200/202 with a JSON array of entry records
ArrayAnswer(answer) ==
    /\ answer.kind = "http"
    /\ answer.status \in {200, 202}
    /\ answer.body.type = "list"
    /\ \A i \in DOMAIN answer.body.items : ValidEntry(answer.body.items[i])

\* an answer 200/202 with something that is neither an array nor has a
\* query_id
NeitherAnswer(answer) ==
    /\ answer.kind = "http"
    /\ answer.status \in {200, 202}
    /\ answer.body.type # "list"
    /\ answer.body.query_id = None

\* the 'not finished yet' signal: HTTP 400
NotFinishedAnswer(answer) == answer.kind = "http" /\ answer.status = 400

\* the transient failures: HTTP 400 and the 'not found' signal, HTTP 404
TransientAnswer(answer) ==
    answer.kind = "http" /\ answer.status \in {400, 404}

\* a failure that is not transient: no answer, no connection, HTTP 500
FatalAnswer(answer) ==
    \/ answer \in {NoAnswer, Refused}
    \/ answer.kind = "http" /\ answer.status = 500

\* the code of the error a failed request is reported with
FailureCode(answer) ==
    CASE answer = NoAnswer -> "REQUEST_TIMEOUT"
      [] answer = Refused -> "CONNECTION_FAILED"
      [] OTHER -> "API_ERROR"

\* the backend accepts the submission and never says that the query is done
NeverDone(b) ==
    /\ b.submit = Accepted
    /\ \A i \in DOMAIN b.status :
          b.status[i] = NotDone \/ TransientAnswer(b.status[i])

\* the call has ended with a StarfishError of this code
EndedWith(a, code) ==
    /\ a.pc = "done"
    /\ a.result # None
    /\ a.result[1] = "error"
    /\ a.result[2].code = code

\* the error holds the query_id in its details
CarriesQueryId(e, query_id) ==
    "query_id" \in DOMAIN e.details /\ e.details.query_id = query_id

\* C13 as stated: polling starts only when the submission response had a
\* query_id.  A call whose submission the backend answers with an array of
\* entries ends with exactly those entries and no status poll; one whose
\* submission is answered with neither an array nor a query_id ends with
\* ASYNC_QUERY_FAILED and no status poll; and a call that has polled was
\* given a query_id.
C13_PollingNeedsQueryId ==
    Served(aq, backend) =>
        /\ ArrayAnswer(backend.submit) =>
              /\ aq.result = <<"entries", EntriesOf(backend.submit.body.items)>>
              /\ Polls(aq) = 0
        /\ NeitherAnswer(backend.submit) =>
              /\ EndedWith(aq, "ASYNC_QUERY_FAILED")
              /\ Polls(aq) = 0
        /\ Polls(aq) > 0 => backend.submit.body.query_id # None

\* the backend says not done at the first k - 1 status polls and done with
\* a location at the k-th, and answers the fetch at the location with an
\* array of entries
HappyBackend(b, k) ==
    /\ b.submit = Accepted
    /\ Len(b.status) = k
    /\ \A i \in 1..(k - 1) : b.status[i] = NotDone
    /\ b.status[k] = Done
    /\ ArrayAnswer(b.result[1])

\* C14 as stated: against a backend that says not done at the first k - 1
\* status polls and done with a location at the k-th, and whose result
\* fetch returns an array, a call that has k attempts returns exactly those
\* entries after exactly k status polls, each after one sleep of
\* poll_interval seconds.
C14_HappyPath ==
    \A k \in 1..MaxAttempts(MaxTimeoutArg) :
        (/\ Served(aq, backend)
         /\ HappyBackend(backend, k)
         /\ MaxAttempts(aq.timeout) >= k) =>
            /\ aq.result = <<"entries", EntriesOf(backend.result[1].body.items)>>
            /\ Polls(aq) = k
            /\ aq.slept = k * PollInterval

\* the backend says done at once, answers the first result fetch and the
\* fetch of the canonical endpoint 'not finished yet', and the second
\* result fetch with an array of entries
RacyBackend(b) ==
    /\ b.submit = Accepted
    /\ b.status = <<Done>>
    /\ Len(b.result) = 2
    /\ NotFinishedAnswer(b.result[1])
    /\ ArrayAnswer(b.result[2])
    /\ NotFinishedAnswer(b.fallback)

\* C15 as stated: when the status says done but the result fetch fails
\* with the 'not finished yet' signal, the call does not fail: it stays in
\* polling, and as the result fetch of its next poll succeeds, a call that
\* has two attempts returns those entries.
C15_RaceTolerated ==
    (/\ Served(aq, backend)
     /\ RacyBackend(backend)
     /\ MaxAttempts(aq.timeout) >= 2) =>
        /\ aq.result = <<"entries", EntriesOf(backend.result[2].body.items)>>
        /\ Polls(aq) = 2

\* C16 as stated: every call that was started ends; no call makes more
\* than floor(timeout / poll_interval) status polls; and against a backend
\* that never says done, or only ever answers the polls with transient
\* failures, the call ends after exactly that many polls with
\* ASYNC_QUERY_TIMEOUT carrying the query_id and the number of attempts.
C16_Terminates ==
    /\ [](Polls(aq) <= MaxAttempts(aq.timeout))
    /\ []((Served(aq, backend) /\ NeverDone(backend)) =>
             /\ EndedWith(aq, "ASYNC_QUERY_TIMEOUT")
             /\ Polls(aq) = MaxAttempts(aq.timeout)
             /\ CarriesQueryId(aq.result[2], <<"q1">>)
             /\ "max_attempts" \in DOMAIN aq.result[2].details
             /\ aq.result[2].details.max_attempts = MaxAttempts(aq.timeout))
    /\ (aq.pc = "get_token" ~> aq.pc = "done")

\* the backend accepts the submission and then answers every status poll,
\* or (having said done) every result fetch, with a transient failure
TransientBackend(b) ==
    /\ b.submit = Accepted
    /\ \/ \A i \in DOMAIN b.status : TransientAnswer(b.status[i])
       \/ /\ b.status = <<Done>>
          /\ \A i \in DOMAIN b.result : TransientAnswer(b.result[i])
          /\ TransientAnswer(b.fallback)

HoldsError(text, e) ==
    /\ \E i \in DOMAIN text : text[i] = e.code
    /\ \A j \in DOMAIN e.message : \E i \in DOMAIN text : text[i] = e.message[j]

\* a suspended invocation ends with an exception passed on to its caller
ErrorEscapes(c) ==
    /\ calls[c].pc # "idle"
    /\ QueryEnds(c, Cancelled) \/ ManagementEnds(c, Cancelled)

\* the text handle_tool_call returns for each error it catches: for a
\* StarfishError "Starfish API error: " followed by the error's code and
\* message; for another Exception (the one check_rate_limit raises, the
\* one build_starfish_query raises on an ill-typed argument and the
\* KeyError of a management function that misses its argument among them)
\* a text starting "Tool execution failed: "; for an unknown tool name a
\* text starting "Unknown tool"
ErrorTexts(c) ==
    /\ calls[c].pc # "idle" =>
          \A ending \in Endings :
             (/\ ending.kind # "CancelledError"
              /\ out'.result = QueryResult(ending)
              /\ QueryEnds(c, ending) \/ ManagementEnds(c, ending)) =>
                CASE ending.kind = "StarfishError" ->
                       /\ out'.result[1] = "Starfish API error: "
                       /\ HoldsError(out'.result, ending.error[1])
                  [] ending.kind = "Exception" ->
                       out'.result[1] = "Tool execution failed: "
                  [] OTHER -> TRUE
    /\ calls[c].pc = "idle" =>
          /\ (\E a, v, t \in BOOLEAN :
                 /\ out'.name = "starfish_query"
                 /\ out'.check = "raise" \/ (~t /\ out'.check # "reject")
                 /\ HandleQuery(c, a, v, t))
                => out'.result[1] = "Tool execution failed: "
          /\ (\E name \in ManagementTools :
                 /\ out'.name = name
                 /\ RequiredArgument(name) # None
                 /\ HandleManagement(c, name, FALSE))
                => out'.result[1] = "Tool execution failed: "
          /\ (out'.name = "unknown" /\ HandleUnknown(c))
                => out'.result[1] = "Unknown tool"

\* C12 as stated: handle_tool_call never lets an error escape to its
\* caller.  Every invocation that ends returns a text, and the text is the
\* one of the error it ran into.
C12_NoErrorEscapes ==
    [][\A c \in Calls : ErrorTexts(c) /\ ~ErrorEscapes(c)]_vars

\* C12, amended: handle_tool_call lets no Exception escape.  A StarfishError,
\* any other Exception and an unknown tool name are each returned as their
\* text.  The one way an invocation ends without returning a text is the
\* cancellation of its task while it is suspended in the client:
\* asyncio.CancelledError is passed on to the caller, and nothing of what
\* the tools returned before is changed by it.
C12_OnlyCancellationEscapes ==
    [][\A c \in Calls :
         /\ ErrorTexts(c)
         /\ ErrorEscapes(c) => out' = out
         /\ (calls[c].pc # "idle" /\ calls'[c].pc = "idle") =>
               \/ ErrorEscapes(c)
               \/ out'.result # None /\ out'.requested]_vars

\* a starfish_query call was admitted and is over, and no call has ever
\* returned anything: its task was cancelled while it was suspended in the
\* client, and its caller got the CancelledError
C12_Witness ==
    /\ Len(admitted) = 1
    /\ \A c \in Calls : calls[c].pc = "idle"
    /\ out.name = ""
    /\ out.result = None

\* C19 as stated: a starfish_query call that reaches the backend has ended
\* within 20 seconds of being admitted, with results or with a timeout
\* error, through client.query and through client.async_query alike.
C19_EndsWithin20Seconds ==
    (/\ aq.caller = "starfish_query"
     /\ aq.pc = "done"
     /\ aq.session = "returns"
     /\ get_token(backend.auth).kind = "token") =>
        /\ aq.elapsed <= RequestTimeout
        /\ \/ aq.result[1] = "entries"
           \/ aq.result[2].code \in {"REQUEST_TIMEOUT", "ASYNC_QUERY_TIMEOUT"}

\* C20 as stated: a starfish_query call with use_async true that goes to
\* the client goes to client.async_query, whatever its other arguments.
C20_UseAsyncGoesAsync ==
    [][\A c \in Calls, has_volumes \in BOOLEAN :
         (HandleQuery(c, TRUE, has_volumes, TRUE) /\ calls'[c].pc # "idle") =>
            calls'[c].pc = "async_query"]_vars

\* ---- properties of build_starfish_query ----

\* the token stands in the query string, between spaces or the string's ends
HasToken(query, token) ==
    \E i \in 1..Len(query) :
        /\ i + Len(token) - 1 <= Len(query)
        /\ SubSeq(query, i, i + Len(token) - 1) = token
        /\ i = 1 \/ query[i - 1] = " "
        /\ i + Len(token) - 1 = Len(query) \/ query[i + Len(token)] = " "

\* the number of pieces of the query string that are this piece
Count(query, piece) == Cardinality({i \in 1..Len(query) : query[i] = piece})

\* the key pieces under which a parameter's value can appear in the query
Keys(p) ==
    CASE p = "name" -> {"name=", "name-re="}
      [] p = "name_regex" -> {"name-re="}
      [] p = "path" -> {"ppath="}
      [] p = "path_regex" -> {"ppath-re="}
      [] p = "file_type" -> {"type="}
      [] p = "username_regex" -> {"username-re="}
      [] p = "groupname_regex" -> {"groupname-re="}
      [] p = "search_all" -> {"search-all"}
      [] p = "children_only" -> {"children-only"}
      [] p = "root_only" -> {"root-only"}
      [] p = "tag_explicit" -> {"tag-explicit="}
      [] p \in {"empty", "versions"} -> {p}
      [] OTHER -> {p \o "="}

\* a name made of letters and the shell wildcards * and ? only, with at
\* least one wildcard
WildcardName(name) ==
    /\ Contains(name, "*") \/ Contains(name, "?")
    /\ ~startswith(name, "^")
    /\ \A c \in RegexChars \ {"?"} : ~Contains(name, c)

\* C21 as stated: a name whose only special characters are * and ? compiles
\* to the token name=<value> with the value unchanged, and to no name-re
\* token.
C21_WildcardsStayLiteral ==
    (/\ qb.done
     /\ qb.arguments.name # None
     /\ WildcardName(qb.arguments.name[1])) =>
        /\ HasToken(qb.query, <<"name=">> \o qb.arguments.name[1])
        /\ qb.arguments.name_regex = None => Count(qb.query, "name-re=") = 0

\* C22: in the query string build_starfish_query returned, a parameter that
\* was not given has no token (no piece of the query is one of its keys,
\* unless a given parameter writes under the same key), a flag given as
\* false compiles like the flag not given, no parameters at all compile to
\* the empty string, and a flag given as true has its bare token in the
\* query exactly once.
C22_UnsetAndFalseAreSilent ==
    qb.done =>
        /\ \A p \in Parameters :
              (/\ qb.arguments[p] = None
               /\ \A q \in Parameters \ {p} :
                     qb.arguments[q] = None \/ Keys(q) \cap Keys(p) = {}) =>
                  \A k \in Keys(p) : Count(qb.query, k) = 0
        /\ \A p \in FlagParameters :
              /\ qb.arguments[p] = <<FALSE>> =>
                    /\ \A k \in Keys(p) : Count(qb.query, k) = 0
                    /\ qb.query =
                         build_starfish_query(
                             [qb.arguments EXCEPT ![p] = None])
              /\ qb.arguments[p] = <<TRUE>> =>
                    \A k \in Keys(p) :
                        Count(qb.query, k) = 1 /\ HasToken(qb.query, <<k>>)
        /\ qb.arguments = NoArguments => qb.query = <<>>

\* a call with one flag false, one flag true and nothing else given
\* returned the true flag's token alone
C22_Witness ==
    /\ qb.done
    /\ qb.arguments.search_all = <<FALSE>>
    /\ qb.arguments.versions = <<TRUE>>
    /\ qb.query = <<"versions">>

\* the explicit regex parameters and the key each is written under
RegexKey(p) ==
    CASE p = "name_regex" -> "name-re="
      [] p = "path_regex" -> "ppath-re="
      [] p = "username_regex" -> "username-re="
      [] p = "groupname_regex" -> "groupname-re="

\* C23: for each explicit regex parameter given a non-empty pattern p, the
\* query holds the token key=^p when p has no leading '^', and then the
\* call with '^' + p in its place returns the same query string; it holds
\* the token key=p, with p unchanged, when p starts with '^'.
C23_AnchoredOnce ==
    qb.done =>
        \A f \in PatternParameters \ {"name"} :
            (qb.arguments[f] # None /\ qb.arguments[f][1] # <<>>) =>
                LET p == qb.arguments[f][1] IN
                IF startswith(p, "^")
                THEN HasToken(qb.query, <<RegexKey(f)>> \o p)
                ELSE /\ HasToken(qb.query, <<RegexKey(f), "^">> \o p)
                     /\ qb.query =
                          build_starfish_query(
                              [qb.arguments EXCEPT ![f] = <<(<<"^">> \o p)>>])

\* a call that gave username_regex a pattern with a leading '^', and one
\* other parameter, returned the pattern as given
C23_Witness ==
    /\ qb.done
    /\ qb.arguments.username_regex = << <<"^", "a">> >>
    /\ qb.arguments.uid = <<0>>
    /\ qb.query = <<"uid=", "0", " ", "username-re=", "^", "a">>

\* ---- properties of the stored timestamps ----

\* every stored timestamp lies in [t - window, t] and the sequence ascends
WithinWindow(ts, t, window) ==
    /\ \A i \in 1..Len(ts) : ts[i] >= t - window /\ ts[i] <= t
    /\ \A i \in 1..Len(ts) - 1 : ts[i] <= ts[i + 1]

\* C24 as stated: after any check_rate_limit call made at time now, enabled
\* or not, every stored timestamp lies in [now - time_window_seconds, now]
\* and the stored sequence is sorted ascending.
C24_StoredWithinWindow ==
    [][CheckRateLimit =>
          WithinWindow(query_timestamps', now, time_window_seconds)]_vars

\* C24, amended: after a check_rate_limit call made at time now on an
\* enabled limiter, whatever update_config calls went before, every stored
\* timestamp lies in [now - time_window_seconds, now] and the sequence is
\* sorted ascending; a call on a disabled limiter leaves the stored
\* timestamps as they were.
C24_StoredWithinWindowWhenEnabled ==
    [][CheckRateLimit =>
          /\ enabled =>
                WithinWindow(query_timestamps', now, time_window_seconds)
          /\ ~enabled => query_timestamps' = query_timestamps]_vars

\* an enabled check has just admitted a call and the oldest stored
\* timestamp is exactly one window old
C24_Witness ==
    /\ enabled
    /\ ret.op = "check"
    /\ ret.outcome = "admit"
    /\ Len(query_timestamps) = 2
    /\ query_timestamps[1] = now - time_window_seconds
    /\ query_timestamps[2] = now

\* C29 as stated: a check_rate_limit call was rejected at some time t with
\* the advertised wait time w, nothing but the clock has moved since (the
\* call's return value and the stored timestamps are still those of the
\* rejection), and now = t + w: the check_rate_limit call made now is
\* admitted.
C29_AdvertisedWaitSuffices ==
    [][(/\ CheckRateLimit
        /\ ret.op = "check"
        /\ ret.outcome = "reject"
        /\ \E t \in 0..now :
              /\ ret.msg[5] = WaitTime(time_window_seconds, t,
                                       query_timestamps)
              /\ now = t + ret.msg[5]) =>
           ret'.outcome = "admit"]_vars

\* ---- further properties of async_query ----

====
